---- MODULE Spec2Model ----
(***************************************************************************)
(* A model of GLIMPSE (personalized knowledge-graph summarization):        *)
(*   src/src/base.py        KnowledgeGraph (the triple store, the value    *)
(*                          model's matrices)                              *)
(*   src/src/algorithms.py  query_vector, random_walk_with_restart         *)
(*   src/src/heap.py        Heap (the lazy candidate array)                *)
(*   src/src/glimpse.py     Summary, GLIMPSE                               *)
(*   src/src/query.py       answer_query, generate_query                   *)
(* A triple (e1, r, e2) is the tuple <<e1, r, e2>>.  A Python dict is a    *)
(* function whose DOMAIN is the dict's key set.                            *)
(***************************************************************************)
EXTENDS Integers, Sequences, FiniteSets, TLC

VARIABLES
    pc,     \* where the modelled run stands
    KG,     \* the parent KnowledgeGraph
    calls,  \* history: the triples passed to KG.add_triple, in order
    T,      \* the transition matrix last computed
    Q,      \* the query being generated and answered
    val,    \* KG's value annotation (entity_value_, triple_value_)
    S,      \* the Summary GLIMPSE builds
    heap_,  \* Heap.heap_: the candidate array
    run,    \* GLIMPSE's arguments and locals
    ret,    \* the outcome of the last lookup call on KG
    metrics \* the counts of the last total_query_log_metrics call

vars == <<pc, KG, calls, T, Q, val, S, heap_, run, ret, metrics>>

glimpse_vars == <<val, S, heap_, run>>

(***************************************************************************)
(* Bounds of the model.                                                    *)
(***************************************************************************)
MaxCalls == 3
MaxQTriples == 3
MaxChain == 2
MaxTriples == 3
MaxK == 3
MaxLog == 1
MaxSamplingLog == 2
MaxPower == 2

\* Labels the triple supplier draws from.
Ent == {"A", "B", "C"}
Rel == {"r", "s"}
Universe == Ent \X Rel \X Ent

Range(f) == {f[x] : x \in DOMAIN f}

(***************************************************************************)
(* KnowledgeGraph (base.py)                                                *)
(***************************************************************************)
KnowledgeGraph ==
    [entities_ |-> {}, relationships_ |-> {}, triples_ |-> <<>>,
     number_of_triples_ |-> 0, eid_ |-> 0,
     entity_id_ |-> <<>>, id_entity_ |-> <<>>]

triples(G) ==
    UNION {UNION {{<<e1, r, e2>> : e2 \in G.triples_[e1][r]}
                  : r \in DOMAIN G.triples_[e1]}
           : e1 \in DOMAIN G.triples_}

number_of_entities(G) == Cardinality(G.entities_)

number_of_triples(G) == G.number_of_triples_

has_entity(G, entity) == entity \in G.entities_

has_triple(G, triple) ==
    /\ triple[1] \in DOMAIN G.triples_
    /\ triple[2] \in DOMAIN G.triples_[triple[1]]
    /\ triple[3] \in G.triples_[triple[1]][triple[2]]

\* The body of "for entity in (e1, e2)": record a new entity.
RecordAlways(G, entity) ==
    [G EXCEPT !.entity_id_ = (entity :> G.eid_) @@ @,
              !.id_entity_ = (G.eid_ :> entity) @@ @,
              !.entities_ = @ \cup {entity},
              !.eid_ = @ + 1]

RecordEntity(G, entity) ==
    IF ~has_entity(G, entity)
    THEN [G EXCEPT !.entity_id_ = (entity :> G.eid_) @@ @,
                   !.id_entity_ = (G.eid_ :> entity) @@ @,
                   !.entities_ = @ \cup {entity},
                   !.eid_ = @ + 1]
    ELSE G

\* triples_[e1][r].add(e2), creating the two dict levels when missing.
IndexTriple(G, triple) ==
    LET e1 == triple[1]
        r  == triple[2]
        e2 == triple[3]
        byRel == IF e1 \in DOMAIN G.triples_ THEN G.triples_[e1] ELSE <<>>
        objs  == IF r \in DOMAIN byRel THEN byRel[r] ELSE {}
    IN  [G EXCEPT !.triples_ = (e1 :> ((r :> (objs \cup {e2})) @@ byRel)) @@ @]

add_triple_unchecked(G, triple) ==
    LET G1 == [G EXCEPT !.number_of_triples_ = @ + 1,
                        !.relationships_ = @ \cup {triple[2]}]
        G2 == RecordEntity(G1, triple[1])
        G3 == RecordEntity(G2, triple[3])
    IN  IndexTriple(G3, triple)

add_triple_norel(G, triple) ==
    IF ~has_triple(G, triple)
    THEN LET G1 == [G EXCEPT !.number_of_triples_ = @ + 1]
             G2 == RecordEntity(G1, triple[1])
             G3 == RecordEntity(G2, triple[3])
         IN  IndexTriple(G3, triple)
    ELSE G

add_triple(G, triple) ==
    IF ~has_triple(G, triple)
    THEN LET G1 == [G EXCEPT !.number_of_triples_ = @ + 1,
                             !.relationships_ = @ \cup {triple[2]}]
             G2 == RecordEntity(G1, triple[1])
             G3 == RecordEntity(G2, triple[3])
         IN  IndexTriple(G3, triple)
    ELSE G

entity_id(G, entity) == G.entity_id_[entity]

id_entity(G, eid) == G.id_entity_[eid]

(***************************************************************************)
(* Sparse matrices (scipy.sparse.csr_matrix as base.py uses it).  A matrix *)
(* of shape (n, n) is a function on (0..n-1) \X (0..n-1).  The constructor *)
(* csr_matrix((data, (row, col)), shape) sums the data of the items that   *)
(* share one (row, col) position.  An item is tagged with the triple that  *)
(* appended it, so that equal (row, col, data) items stay distinct.        *)
(***************************************************************************)
RECURSIVE SumData(_)
SumData(items) ==
    IF items = {} THEN 0
    ELSE LET x == CHOOSE y \in items : TRUE
         IN  x.data + SumData(items \ {x})

Ids(n) == 0 .. (n - 1)

csr_from_items(items, n) ==
    [p \in Ids(n) \X Ids(n) |->
        SumData({x \in items : x.row = p[1] /\ x.col = p[2]})]

transpose(M, n) == [p \in Ids(n) \X Ids(n) |-> M[<<p[2], p[1]>>]]

RECURSIVE DotRange(_, _, _, _, _)
DotRange(X, Y, i, j, k) ==
    IF k < 0 THEN 0
    ELSE X[<<i, k>>] * Y[<<k, j>>] + DotRange(X, Y, i, j, k - 1)

matmul(X, Y, n) == [p \in Ids(n) \X Ids(n) |-> DotRange(X, Y, p[1], p[2], n - 1)]

\* csr_matrix(): one item (id(e1), id(e2), 1) per stored triple.
csr_matrix(G) ==
    csr_from_items(
        {[of |-> t, row |-> entity_id(G, t[1]), col |-> entity_id(G, t[3]),
          data |-> 1] : t \in triples(G)},
        number_of_entities(G))

\* The degree matrix D of transition_matrix(): one item (id(e1), id(e1), 1)
\* per stored triple, its data replaced by 1 / data (every data is 1, so
\* the quotient is the integer 1).
degree_items(G) ==
    {[of |-> t, row |-> entity_id(G, t[1]), col |-> entity_id(G, t[1]),
      data |-> 1 \div 1] : t \in triples(G)}

transition_matrix(G) ==
    LET n == number_of_entities(G)
        D == csr_from_items(degree_items(G), n)
    IN  matmul(transpose(csr_matrix(G), n), D, n)

(***************************************************************************)
(* Floating point.  A float is modelled as a fixed-point number: the       *)
(* integer v stands for v / Scale.  NaN (the quotient 0.0 / 0.0) is a      *)
(* value of its own; no float of the program is negative.  A comparison    *)
(* with NaN is false and arithmetic on NaN gives NaN.                      *)
(***************************************************************************)
Scale == 10000
NaN == -1

IsNaN(a) == a = NaN
ToFloat(n) == n * Scale
FAdd(a, b) == IF IsNaN(a) \/ IsNaN(b) THEN NaN ELSE a + b
FMul(a, b) == IF IsNaN(a) \/ IsNaN(b) THEN NaN ELSE (a * b) \div Scale
FDiv(a, b) == IF IsNaN(a) \/ IsNaN(b) \/ (a = 0 /\ b = 0) THEN NaN
              ELSE (a * Scale) \div b
FLess(a, b) == ~IsNaN(a) /\ ~IsNaN(b) /\ a < b

\* a >= b on floats (false when either is NaN).
FGeq(a, b) == ~IsNaN(a) /\ ~IsNaN(b) /\ a >= b

\* np.log(a + 1) for 0 <= a <= 1, by the series
\* log(1 + a) = 2 (z + z^3/3 + z^5/5 + ...) with z = a / (2 + a).
Log1p(a) ==
    IF IsNaN(a) THEN NaN
    ELSE LET z  == (a * Scale) \div (2 * Scale + a)
             z2 == FMul(z, z)
             z3 == FMul(z2, z)
             z5 == FMul(z3, z2)
             z7 == FMul(z5, z2)
             z9 == FMul(z7, z2)
         IN  2 * (z + (z3 \div 3) + (z5 \div 5) + (z7 \div 7) + (z9 \div 9))

(***************************************************************************)
(* The value model (algorithms.py, base.py).  A vector over the entities   *)
(* is a function on 0..n-1.                                                *)
(***************************************************************************)
RestartProb == 1500
DefaultPower == 1

NoValues == [entity_value_ |-> <<>>, triple_value_ |-> <<>>]

\* A query of the log: the value model reads the topic entity only.
LogQuery(topic) == [Parse |-> [TopicEntityMid |-> topic]]

RECURSIVE query_vector_from(_, _, _)
query_vector_from(G, query_log, x) ==
    IF query_log = <<>> THEN x
    ELSE LET topic_eid == entity_id(G, Head(query_log).Parse.TopicEntityMid)
         IN  query_vector_from(G, Tail(query_log),
                               [x EXCEPT ![topic_eid] = FAdd(@, ToFloat(1))])

\* A variant that starts from np.ones instead of np.zeros.
query_vector_smoothed(G, query_log) ==
    query_vector_from(G, query_log,
                      [i \in Ids(number_of_entities(G)) |-> ToFloat(1)])

query_vector(G, query_log) ==
    query_vector_from(G, query_log, [i \in Ids(number_of_entities(G)) |-> 0])

RECURSIVE VecSum(_, _)
VecSum(v, k) == IF k < 0 THEN 0 ELSE FAdd(v[k], VecSum(v, k - 1))

\* Row i of (scalar * M) * q, summed over the columns 0..k.
RECURSIVE ScaledRowDot(_, _, _, _, _)
ScaledRowDot(scalar, M, q, i, k) ==
    IF k < 0 THEN 0
    ELSE FAdd(FMul(FMul(scalar, ToFloat(M[<<i, k>>])), q[k]),
              ScaledRowDot(scalar, M, q, i, k - 1))

RECURSIVE rwr_iterate(_, _, _, _, _)
rwr_iterate(M, q, r, c, power) ==
    IF power = 0 THEN r
    ELSE LET n  == Cardinality(DOMAIN r)
             q1 == [i \in DOMAIN r |->
                       ScaledRowDot(Scale - c, M, q, i, n - 1)]
             r1 == [i \in DOMAIN r |-> FAdd(r[i], q1[i])]
             total == VecSum(r1, n - 1)
             r2 == [i \in DOMAIN r |-> FDiv(r1[i], total)]
         IN  rwr_iterate(M, q1, r2, c, power - 1)

random_walk_with_restart(M, x, c, power) ==
    LET q == [i \in DOMAIN x |-> FMul(c, x[i])]
    IN  rwr_iterate(M, q, q, c, power)

\* model_user_pref: the value annotation it stores.
model_user_pref(G, query_log, power) ==
    LET x0 == query_vector(G, query_log)
        M  == transition_matrix(G)
        x  == random_walk_with_restart(M, x0, RestartProb, power)
    IN  [entity_value_ |->
            [entity \in {id_entity(G, eid) : eid \in DOMAIN x} |->
                Log1p(x[entity_id(G, entity)])],
         triple_value_ |->
            [triple \in triples(G) |->
                Log1p(FMul(x[entity_id(G, triple[1])],
                           x[entity_id(G, triple[3])]))]]

\* entity_value_ and triple_value_ are defaultdict(float): 0.0 when absent.
entity_value(v, entity) ==
    IF entity \in DOMAIN v.entity_value_ THEN v.entity_value_[entity] ELSE 0

triple_value(v, triple) ==
    IF triple \in DOMAIN v.triple_value_ THEN v.triple_value_[triple] ELSE 0

\* Heap.update's locals when it was not called yet or returned at once: n,
\* the sampled indices, the triples of the sampled items, and how the lazy
\* check went ("none", "accepted" or "fallback").
NoSample == [n |-> 0, indices |-> <<>>, triples |-> <<>>, lazy |-> "none"]

NoRun == [K |-> 0, epsilon |-> "None", power |-> DefaultPower,
          query_log |-> <<>>, sample_size |-> 0,
          fill_list |-> <<>>, fill_set |-> {}, sample |-> NoSample]

\* No lookup was made yet.  A lookup's outcome: the call (op), the entity
\* label and the entity ID it was given or returned, whether it raised, and
\* the float it returned.
NoRet == [op |-> "none", entity |-> "", eid |-> -1, raised |-> FALSE,
          value |-> 0]

\* d[key] on a plain dict raises KeyError when key is absent.
raises_KeyError(d, key) == key \notin DOMAIN d

\* d[key] on a defaultdict(float): an absent key is inserted with 0.0.
defaultdict_getitem(d, key) ==
    IF key \in DOMAIN d THEN d
    ELSE [k \in DOMAIN d \cup {key} |-> IF k = key THEN 0 ELSE d[k]]

\* query_vector raises the KeyError of KG.entity_id at the first topic
\* entity that has no ID.
query_vector_raises(G, query_log) ==
    \E i \in DOMAIN query_log :
        raises_KeyError(G.entity_id_, query_log[i].Parse.TopicEntityMid)

(***************************************************************************)
(* Summary (glimpse.py): a KnowledgeGraph whose parent is KG, annotated    *)
(* with v.                                                                 *)
(***************************************************************************)
marginal_value(Sm, v, triple) ==
    LET t0 == 0
        t1 == IF ~has_entity(Sm, triple[1])
              THEN FAdd(t0, entity_value(v, triple[1])) ELSE t0
        t2 == IF ~has_entity(Sm, triple[3])
              THEN FAdd(t1, entity_value(v, triple[3])) ELSE t1
    IN  IF ~has_triple(Sm, triple) THEN FAdd(t2, triple_value(v, triple)) ELSE t2

fill_stops_late(Sm, k) == number_of_triples(Sm) > k

\* Summary.fill: "if self.number_of_triples() >= k: return".
fill_stops(Sm, k) == number_of_triples(Sm) >= k

(***************************************************************************)
(* Heap (heap.py).  heap_ is a sequence of items [triple, value_]; the     *)
(* Python index i is the position i + 1.  A list of sampled items is the   *)
(* list of their indexes in heap_ (the items are shared objects, and       *)
(* item.index_ is the index the item was sampled at).                      *)
(***************************************************************************)
RECURSIVE Perms(_)
Perms(xs) ==
    IF xs = {} THEN {<<>>}
    ELSE UNION {{<<x>> \o p : p \in Perms(xs \ {x})} : x \in xs}

\* Heap.__init__: the score of a triple of KG.
initial_total(v, triple) ==
    FAdd(FAdd(entity_value(v, triple[1]), entity_value(v, triple[3])),
         triple_value(v, triple))

\* Heap.__init__: KG.triples() is a set, iterated in any order; the triples
\* with total > 0 are appended in that order.
heap_inits(G, v) ==
    Perms({[triple |-> t, value_ |-> initial_total(v, t)] :
              t \in {u \in triples(G) : FLess(0, initial_total(v, u))}})

heap_triples(h) == [i \in DOMAIN h |-> h[i].triple]

\* Heap.Triple.__lt__ on the items at indexes a and b.
item_lt(h, a, b) == FLess(h[b + 1].value_, h[a + 1].value_)

\* heapq._siftdown(x, startpos, pos) with newitem = x[pos].
RECURSIVE siftdown(_, _, _, _, _)
siftdown(h, x, startpos, pos, newitem) ==
    IF pos > startpos
    THEN LET parentpos == (pos - 1) \div 2
             parent == x[parentpos + 1]
         IN  IF item_lt(h, newitem, parent)
             THEN siftdown(h, [x EXCEPT ![pos + 1] = parent], startpos,
                           parentpos, newitem)
             ELSE [x EXCEPT ![pos + 1] = newitem]
    ELSE [x EXCEPT ![pos + 1] = newitem]

\* heapq._siftup's loop: bubble the smaller child up until a leaf is hit;
\* the list and the leaf position reached.
RECURSIVE siftup_walk(_, _, _)
siftup_walk(h, x, pos) ==
    LET endpos == Len(x)
        childpos == 2 * pos + 1
        rightpos == childpos + 1
        c == IF rightpos < endpos /\ ~item_lt(h, x[childpos + 1], x[rightpos + 1])
             THEN rightpos ELSE childpos
    IN  IF childpos < endpos
        THEN siftup_walk(h, [x EXCEPT ![pos + 1] = x[c + 1]], c)
        ELSE <<x, pos>>

siftup(h, x, pos) ==
    LET newitem == x[pos + 1]
        w == siftup_walk(h, x, pos)
    IN  siftdown(h, w[1], pos, w[2], newitem)

RECURSIVE heapify_from(_, _, _)
heapify_from(h, x, i) ==
    IF i < 0 THEN x ELSE heapify_from(h, siftup(h, x, i), i - 1)

heapify(h, x) == heapify_from(h, x, (Len(x) \div 2) - 1)

heapreplace(h, x, item) == siftup(h, [x EXCEPT ![1] = item], 0)

_update_marginal_stale(h, Sm, v, i) == h

\* A variant that forgets the score instead of recomputing it.
_update_marginal_zero(h, Sm, v, i) == [h EXCEPT ![i + 1].value_ = 0]

\* Heap._update_marginal on the item at index i.
_update_marginal(h, Sm, v, i) ==
    [h EXCEPT ![i + 1].value_ = marginal_value(Sm, v, h[i + 1].triple)]

_move_to_top(h, argmax) ==
    [h EXCEPT ![Len(h)] = h[argmax + 1], ![argmax + 1] = h[Len(h)]]

\* Heap.update, "if lazy fails": the loop over the sampled indexes from
\* position k of indices on; the heap and argmax at its end.
RECURSIVE refresh_sample(_, _, _, _, _, _)
refresh_sample(h, Sm, v, indices, k, argmax) ==
    IF k > Len(indices) THEN <<h, argmax>>
    ELSE LET i == indices[k]
             triple == h[i + 1].triple
             h1 == IF has_entity(Sm, triple[1]) \/ has_entity(Sm, triple[3])
                   THEN _update_marginal(h, Sm, v, i) ELSE h
         IN  IF FLess(h1[argmax + 1].value_, h1[i + 1].value_)
             THEN refresh_sample(h1, Sm, v, indices, k + 1, i)
             ELSE refresh_sample(h1, Sm, v, indices, k + 1, argmax)

\* Whether the lazy check of Heap.update succeeds on the sample indices.
lazy_succeeds(h, Sm, v, indices) ==
    LET x1 == heapify(h, indices)
        top == x1[1]
        h1 == _update_marginal(h, Sm, v, top)
        x2 == heapreplace(h1, x1, top)
    IN  h1[top + 1].triple = h1[x2[1] + 1].triple

\* Heap.update once the sample indices are drawn.
update_sampled(h, Sm, v, indices) ==
    LET x1 == heapify(h, indices)
        top == x1[1]
        h1 == _update_marginal(h, Sm, v, top)
        x2 == heapreplace(h1, x1, top)
        after == x2[1]
    IN  IF h1[top + 1].triple = h1[after + 1].triple
        THEN _move_to_top(h1, after)
        ELSE LET w == refresh_sample(h1, Sm, v, indices, 1, 0)
             IN  _move_to_top(w[1], w[2])

Min(a, b) == IF a < b THEN a ELSE b

RECURSIVE Draws(_, _)
Draws(n, m) ==
    IF m = 0 THEN {<<>>}
    ELSE {Append(d, i) : d \in Draws(n, m - 1), i \in Ids(n)}

\* The index samples Heap.update can draw: np.random.randint(0, n, size)
\* when size < n, else np.arange(n).
samples(n, sample_size) ==
    IF sample_size < n THEN Draws(n, sample_size)
    ELSE {[k \in 1 .. n |-> k - 1]}

\* What Heap.update(S, sample_size) can do: the heap it leaves, with the
\* locals of the call.
update(h, Sm, v, sample_size) ==
    LET n == Len(h)
        size == Min(n, sample_size)
    IN  IF n <= 1 \/ size = 0
        THEN {[heap_ |-> h, sample |-> [NoSample EXCEPT !.n = n]]}
        ELSE {[heap_ |-> update_sampled(h, Sm, v, indices),
               sample |->
                  [n |-> n, indices |-> indices,
                   triples |-> [k \in DOMAIN indices |-> h[indices[k] + 1].triple],
                   lazy |-> IF lazy_succeeds(h, Sm, v, indices)
                            THEN "accepted" ELSE "fallback"]] :
              indices \in samples(n, size)}

(***************************************************************************)
(* GLIMPSE (glimpse.py).  epsilon is "None" or the name of a float in      *)
(* (0, 1]; log_inv is np.log(1 / epsilon).                                 *)
(***************************************************************************)
Epsilons == {"None", "0.001", "0.25", "0.5", "1.0"}

log_inv(epsilon) ==
    CASE epsilon = "0.001" -> 69078
      [] epsilon = "0.25" -> 13863
      [] epsilon = "0.5" -> 6931
      [] epsilon = "1.0" -> 0

\* int(len(heap) / K * np.log(1 / epsilon)), K # 0.
sample_size_for(n, K, epsilon) ==
    IF epsilon = "None" THEN n
    ELSE (n * log_inv(epsilon)) \div (K * Scale)

loop_continues_past(h, Sm, K) == Len(h) > 0 /\ number_of_triples(Sm) <= K

\* A variant that ignores the budget.
loop_continues_unbudgeted(h, Sm, K) == Len(h) > 0

\* "while len(heap) and S.number_of_triples() < K".
loop_continues(h, Sm, K) == Len(h) > 0 /\ number_of_triples(Sm) < K

NoQuery ==
    [query |-> [TopicEntityMid |-> "", InferentialChain |-> <<>>,
                Constraints |-> <<>>, Answers |-> {}],
     generated |-> FALSE, index |-> 0, result |-> {}, answer |-> {}]

(***************************************************************************)
(* Queries (query.py).  A query keeps the fields answer_query reads, and   *)
(* the Answers the generator records; a constraint is                      *)
(* [SourceNodeIndex, NodePredicate, Argument].  Hop indexes are those of   *)
(* enumerate(): 0-based.                                                   *)
(***************************************************************************)
\* "entity in KG and predicate in KG[entity]": KG[entity][predicate], else {}.
Objects(G, entity, predicate) ==
    IF entity \in DOMAIN G.triples_ /\ predicate \in DOMAIN G.triples_[entity]
    THEN G.triples_[entity][predicate]
    ELSE {}

\* Candidate answer entities of one hop.
Candidates(G, result, predicate) ==
    UNION {Objects(G, entity, predicate) : entity \in result}

\* A variant that removes the candidates that have the argument.
Removed_present(G, candidates, constraint) ==
    {entity \in candidates :
        /\ entity \in DOMAIN G.triples_
        /\ constraint.NodePredicate \in DOMAIN G.triples_[entity]
        /\ constraint.Argument \in G.triples_[entity][constraint.NodePredicate]}

\* The candidates a constraint removes.
Removed(G, candidates, constraint) ==
    {entity \in candidates :
        \/ entity \notin DOMAIN G.triples_
        \/ constraint.NodePredicate \notin DOMAIN G.triples_[entity]
        \/ constraint.Argument \notin G.triples_[entity][constraint.NodePredicate]}

ConstraintsAt(query, index) ==
    {query.Constraints[i] : i \in {j \in DOMAIN query.Constraints :
                                      query.Constraints[j].SourceNodeIndex = index}}

answer_hop_sticky(G, query, index, result) ==
    LET candidates == Candidates(G, result, query.InferentialChain[index + 1])
        remove == UNION {Removed(G, candidates, c) : c \in ConstraintsAt(query, index)}
    IN  IF candidates = {} THEN result ELSE candidates \ remove

answer_hop_unconstrained(G, query, index, result) ==
    Candidates(G, result, query.InferentialChain[index + 1])

answer_hop_onebased(G, query, index, result) ==
    LET candidates == Candidates(G, result, query.InferentialChain[index + 1])
        remove == UNION {Removed(G, candidates, c) :
                            c \in ConstraintsAt(query, index + 1)}
    IN  candidates \ remove

\* One iteration of answer_query's loop: hop number index (0-based).
answer_hop(G, query, index, result) ==
    LET candidates == Candidates(G, result, query.InferentialChain[index + 1])
        remove == UNION {Removed(G, candidates, c) : c \in ConstraintsAt(query, index)}
    IN  candidates \ remove

RECURSIVE answer_from(_, _, _, _)
answer_from(G, query, index, result) ==
    IF index >= Len(query.InferentialChain) THEN result
    ELSE answer_from(G, query, index + 1, answer_hop(G, query, index, result))

answer_query(G, query) ==
    answer_from(G, query, 0, {query.TopicEntityMid}) \ {query.TopicEntityMid}

(***************************************************************************)
(* Metrics (metrics.py).  total_query_log_metrics is modelled by the       *)
(* counts tp, fp and fn its scores are computed from; parent is            *)
(* S.parent().                                                             *)
(***************************************************************************)
NoMetrics == [tp |-> 0, fp |-> 0, fn |-> 0]

RECURSIVE total_query_log_metrics_from(_, _, _, _)
total_query_log_metrics_from(Sm, parent, query_log, m) ==
    IF query_log = <<>> THEN m
    ELSE LET kg_matches == answer_query(parent, Head(query_log))
             summary_matches == answer_query(Sm, Head(query_log))
         IN  total_query_log_metrics_from(Sm, parent, Tail(query_log),
                 [tp |-> m.tp + Cardinality(summary_matches \cap kg_matches),
                  fp |-> m.fp + Cardinality(summary_matches \ kg_matches),
                  fn |-> m.fn + Cardinality(kg_matches \ summary_matches)])

total_query_log_metrics(Sm, parent, query_log) ==
    total_query_log_metrics_from(Sm, parent, query_log, NoMetrics)

\* generate_query, first loop: the chains a random walk of at most chain_len
\* hops from entity can produce (every outcome of random.choice).
RECURSIVE Chains(_, _, _, _)
Chains(G, entity, chain_len, exclude_preds) ==
    LET predicates == IF entity \in DOMAIN G.triples_
                      THEN DOMAIN G.triples_[entity] \ exclude_preds
                      ELSE {}
    IN  IF chain_len = 0 \/ predicates = {} THEN {<<>>}
        ELSE UNION {UNION {{<<predicate>> \o c :
                            c \in Chains(G, e, chain_len - 1, exclude_preds)}
                           : e \in G.triples_[entity][predicate]}
                    : predicate \in predicates}

\* generate_query, second loop from hop index on: every outcome, as the
\* constraints appended and the final result.
RECURSIVE Generated(_, _, _, _, _, _)
Generated(G, chain, index, result, constraint_index, exclude_preds) ==
    IF index >= Len(chain) THEN {[constraints |-> <<>>, result |-> result]}
    ELSE
      LET candidates == Candidates(G, result, chain[index + 1])
          rest(cands) == Generated(G, chain, index + 1, cands,
                                   constraint_index, exclude_preds)
          predicates(entity) ==
              IF entity \in DOMAIN G.triples_
              THEN {pred \in DOMAIN G.triples_[entity] :
                       pred \notin Range(chain) /\ pred \notin exclude_preds}
              ELSE {}
          constrained(entity) ==
              UNION {IF G.triples_[entity][predicate] = {} THEN rest(candidates)
                     ELSE UNION {
                  LET c == [SourceNodeIndex |-> index, NodePredicate |-> predicate,
                            Argument |-> argument]
                  IN  {[constraints |-> <<c>> \o o.constraints, result |-> o.result] :
                          o \in rest(candidates \ Removed(G, candidates, c))}
                  : argument \in G.triples_[entity][predicate]}
                : predicate \in predicates(entity)}
      IN  IF candidates # {} /\ constraint_index = index
          THEN UNION {IF predicates(entity) = {} THEN rest(candidates)
                      ELSE constrained(entity) : entity \in candidates}
          ELSE rest(candidates)

\* The queries generate_query can return.  constraint_index = -1 stands for
\* None.
generate_query(G, topic_mid, chain_len, constraint_index, exclude_preds) ==
    UNION {{[TopicEntityMid |-> topic_mid,
             InferentialChain |-> chain,
             Constraints |-> o.constraints,
             Answers |-> {[AnswerArgument |-> answer] :
                             answer \in o.result \ {topic_mid}}] :
            o \in Generated(G, chain, 0, {topic_mid}, constraint_index, exclude_preds)}
           : chain \in Chains(G, topic_mid, chain_len, exclude_preds)}

(***************************************************************************)
(* The store under a triple supplier: any sequence of add_triple calls.    *)
(* calls is the history of the triples passed to add_triple.               *)
(***************************************************************************)
InitStore ==
    /\ pc = "store"
    /\ KG = KnowledgeGraph
    /\ calls = <<>>
    /\ T = <<>>
    /\ Q = NoQuery
    /\ val = NoValues
    /\ S = KnowledgeGraph
    /\ heap_ = <<>>
    /\ run = NoRun
    /\ ret = NoRet
    /\ metrics = NoMetrics

AddTriple ==
    /\ pc = "store"
    /\ Len(calls) < MaxCalls
    /\ \E triple \in Universe :
          /\ KG' = add_triple(KG, triple)
          /\ calls' = Append(calls, triple)
    /\ UNCHANGED <<ret, metrics, pc, T, Q, glimpse_vars>>

\* The value model asks the loaded store for its transition matrix.
TransitionMatrix ==
    /\ pc = "store"
    /\ pc' = "matrix"
    /\ T' = transition_matrix(KG)
    /\ UNCHANGED <<ret, metrics, KG, calls, Q, glimpse_vars>>

NextStore == AddTriple \/ TransitionMatrix

SpecStore == InitStore /\ [][NextStore]_vars

(***************************************************************************)
(* Queries against a loaded store.  The store is loaded with up to         *)
(* MaxQTriples of the triples of QTriples; a query is either loaded        *)
(* (any topic, chain and constraint) or generated, then answered hop by    *)
(* hop.                                                                    *)
(***************************************************************************)
QTriples ==
    <<  <<"A", "friend", "B">>, <<"B", "friend", "C">>, <<"B", "age", "30">>,
        <<"C", "age", "30">>, <<"B", "friend", "A">>, <<"A", "friend", "C">>,
        <<"C", "age", "31">>, <<"A", "age", "30">> >>

QEnt == {"A", "B", "C"}
QRel == {"friend", "age"}
QArg == {"30", "31", "C"}

RECURSIVE Load(_, _, _)
Load(G, seq, picked) ==
    IF seq = <<>> THEN G
    ELSE Load(IF Len(seq) \in picked THEN add_triple(G, seq[Len(seq)]) ELSE G,
              SubSeq(seq, 1, Len(seq) - 1), picked)

RECURSIVE SeqsUpTo(_, _)
SeqsUpTo(xs, n) ==
    IF n = 0 THEN {<<>>}
    ELSE LET shorter == SeqsUpTo(xs, n - 1)
         IN  shorter \cup {Append(q, x) : q \in shorter, x \in xs}

LoadedQueries ==
    [TopicEntityMid : QEnt,
     InferentialChain : SeqsUpTo(QRel, MaxChain),
     Constraints : SeqsUpTo([SourceNodeIndex : 0 .. MaxChain - 1,
                             NodePredicate : QRel, Argument : QArg], 1),
     Answers : {{}}]

InitQuery ==
    /\ pc = "query"
    /\ \E picked \in {P \in SUBSET DOMAIN QTriples : Cardinality(P) <= MaxQTriples} :
          KG = Load(KnowledgeGraph, QTriples, picked)
    /\ calls = <<>>
    /\ T = <<>>
    /\ Q = NoQuery
    /\ val = NoValues
    /\ S = KnowledgeGraph
    /\ heap_ = <<>>
    /\ run = NoRun
    /\ ret = NoRet
    /\ metrics = NoMetrics

StartAnswer(query, generated) ==
    /\ pc' = "answer"
    /\ Q' = [query |-> query, generated |-> generated, index |-> 0,
             result |-> {query.TopicEntityMid}, answer |-> {}]
    /\ UNCHANGED <<ret, metrics, KG, calls, T, glimpse_vars>>

LoadQuery ==
    /\ pc = "query"
    /\ \E query \in LoadedQueries : StartAnswer(query, FALSE)

GenerateQuery ==
    /\ pc = "query"
    /\ \E topic_mid \in QEnt, chain_len \in 0 .. MaxChain,
          constraint_index \in -1 .. MaxChain - 1, exclude_preds \in SUBSET QRel :
          \E query \in generate_query(KG, topic_mid, chain_len,
                                      constraint_index, exclude_preds) :
              StartAnswer(query, TRUE)

AnswerHop ==
    /\ pc = "answer"
    /\ Q.index < Len(Q.query.InferentialChain)
    /\ Q' = [Q EXCEPT !.result = answer_hop(KG, Q.query, Q.index, Q.result),
                      !.index = @ + 1]
    /\ UNCHANGED <<ret, metrics, pc, KG, calls, T, glimpse_vars>>

AnswerReturn ==
    /\ pc = "answer"
    /\ Q.index >= Len(Q.query.InferentialChain)
    /\ pc' = "answered"
    /\ Q' = [Q EXCEPT !.answer = Q.result \ {Q.query.TopicEntityMid}]
    /\ UNCHANGED <<ret, metrics, KG, calls, T, glimpse_vars>>

NextQuery == LoadQuery \/ GenerateQuery \/ AnswerHop \/ AnswerReturn

SpecQuery == InitQuery /\ [][NextQuery]_vars

(***************************************************************************)
(* The metrics of a summary against its parent.  The parent is loaded      *)
(* with up to MaxQTriples of the triples of MTriples (the first five of    *)
(* QTriples); a loaded query is answered on it, then measured on a         *)
(* summary.                                                                *)
(***************************************************************************)
MTriples == SubSeq(QTriples, 1, 5)

InitMetrics ==
    /\ pc = "query"
    /\ \E picked \in {P \in SUBSET DOMAIN MTriples : Cardinality(P) <= MaxQTriples} :
          KG = Load(KnowledgeGraph, MTriples, picked)
    /\ calls = <<>>
    /\ T = <<>>
    /\ Q = NoQuery
    /\ val = NoValues
    /\ S = KnowledgeGraph
    /\ heap_ = <<>>
    /\ run = NoRun
    /\ ret = NoRet
    /\ metrics = NoMetrics

\* total_query_log_metrics(S, query_log) for a Summary S of KG that holds any
\* of KG's triples, on the log of the answered query and the same query
\* without its constraints.
TotalQueryLogMetrics ==
    /\ pc = "answered"
    /\ pc' = "measured"
    /\ \E picked \in SUBSET {i \in DOMAIN MTriples : has_triple(KG, MTriples[i])} :
          /\ S' = Load(KnowledgeGraph, MTriples, picked)
          /\ metrics' = total_query_log_metrics(
                            S', KG, <<Q.query, [Q.query EXCEPT !.Constraints = <<>>]>>)
    /\ UNCHANGED <<ret, KG, calls, T, Q, val, heap_, run>>

NextMetrics == LoadQuery \/ AnswerHop \/ AnswerReturn \/ TotalQueryLogMetrics

SpecMetrics == InitMetrics /\ [][NextMetrics]_vars

(***************************************************************************)
(* GLIMPSE(KG, K, query_log, epsilon) on a loaded store: KG holds up to    *)
(* MaxTriples of the triples of GTriples, the log up to MaxLog queries     *)
(* whose topic entities are in KG.                                         *)
(***************************************************************************)
GTriples ==
    <<  <<"A", "r", "B">>, <<"A", "r", "C">>, <<"B", "r", "C">>,
        <<"C", "r", "C">>, <<"A", "s", "B">>, <<"B", "s", "A">>,
        <<"C", "r", "A">> >>

InitGlimpse ==
    /\ pc = "glimpse"
    /\ \E picked \in {P \in SUBSET DOMAIN GTriples : Cardinality(P) <= MaxTriples} :
          KG = Load(KnowledgeGraph, GTriples, picked)
    /\ calls = <<>>
    /\ T = <<>>
    /\ Q = NoQuery
    /\ val = NoValues
    /\ S = KnowledgeGraph
    /\ heap_ = <<>>
    /\ \E K \in 0 .. MaxK, epsilon \in Epsilons,
          topics \in SeqsUpTo(KG.entities_, MaxLog) :
          run = [NoRun EXCEPT !.K = K, !.epsilon = epsilon,
                              !.query_log = [i \in DOMAIN topics |->
                                                LogQuery(topics[i])]]
    /\ ret = NoRet
    /\ metrics = NoMetrics

\* KG.model_user_pref(query_log, power=power)
ModelUserPref ==
    /\ pc = "glimpse"
    /\ pc' = "scored"
    /\ val' = model_user_pref(KG, run.query_log, run.power)
    /\ UNCHANGED <<ret, metrics, KG, calls, T, Q, S, heap_, run>>

\* heap = Heap(KG); S = Summary(KG)
NewHeap ==
    /\ pc = "scored"
    /\ pc' = "branch"
    /\ heap_' \in heap_inits(KG, val)
    /\ S' = KnowledgeGraph
    /\ UNCHANGED <<ret, metrics, KG, calls, T, Q, val, run>>

\* if len(heap) <= K: S.fill(heap.triples(), K)
DirectTake ==
    /\ pc = "branch"
    /\ Len(heap_) <= run.K
    /\ pc' = "fill_heap"
    /\ run' = [run EXCEPT !.fill_list = heap_triples(heap_)]
    /\ UNCHANGED <<ret, metrics, KG, calls, T, Q, val, S, heap_>>

\* else: heap.update(S, len(heap)); sample_size = ...
StartLoop ==
    /\ pc = "branch"
    /\ Len(heap_) > run.K
    /\ run.epsilon = "None" \/ run.K # 0
    /\ pc' = "loop"
    /\ \E u \in update(heap_, S, val, Len(heap_)) :
          /\ heap_' = u.heap_
          /\ run' = [run EXCEPT !.sample = u.sample,
                                !.sample_size =
                                    sample_size_for(Len(heap_), run.K, run.epsilon)]
    /\ UNCHANGED <<ret, metrics, KG, calls, T, Q, val, S>>

\* else: heap.update(S, len(heap)); then len(heap) / K with K = 0 raises
\* ZeroDivisionError.
DivideByZero ==
    /\ pc = "branch"
    /\ Len(heap_) > run.K
    /\ run.epsilon # "None" /\ run.K = 0
    /\ pc' = "error"
    /\ \E u \in update(heap_, S, val, Len(heap_)) :
          /\ heap_' = u.heap_
          /\ run' = [run EXCEPT !.sample = u.sample]
    /\ UNCHANGED <<ret, metrics, KG, calls, T, Q, val, S>>

\* One iteration of the selection loop: pop, add_triple, update.
Select ==
    /\ pc = "loop"
    /\ loop_continues(heap_, S, run.K)
    /\ LET triple == heap_[Len(heap_)].triple
           popped == SubSeq(heap_, 1, Len(heap_) - 1)
           S1 == add_triple(S, triple)
       IN  /\ S' = S1
           /\ \E u \in update(popped, S1, val, run.sample_size) :
                  /\ heap_' = u.heap_
                  /\ run' = [run EXCEPT !.sample = u.sample]
    /\ UNCHANGED <<ret, metrics, pc, KG, calls, T, Q, val>>

\* The loop ends; S.fill(KG.triples(), K) starts (a set, in any order).
StartPadding ==
    /\ \/ pc = "loop" /\ ~loop_continues(heap_, S, run.K)
       \/ pc = "fill_heap" /\ (run.fill_list = <<>> \/ fill_stops(S, run.K))
    /\ pc' = "fill_kg"
    /\ run' = [run EXCEPT !.fill_set = triples(KG), !.fill_list = <<>>]
    /\ UNCHANGED <<ret, metrics, KG, calls, T, Q, val, S, heap_>>

\* One iteration of S.fill(heap.triples(), K).
FillFromHeap ==
    /\ pc = "fill_heap"
    /\ run.fill_list # <<>>
    /\ ~fill_stops(S, run.K)
    /\ S' = add_triple(S, Head(run.fill_list))
    /\ run' = [run EXCEPT !.fill_list = Tail(@)]
    /\ UNCHANGED <<ret, metrics, pc, KG, calls, T, Q, val, heap_>>

\* One iteration of S.fill(KG.triples(), K).
FillFromKG ==
    /\ pc = "fill_kg"
    /\ run.fill_set # {}
    /\ ~fill_stops(S, run.K)
    /\ \E triple \in run.fill_set :
          /\ S' = add_triple(S, triple)
          /\ run' = [run EXCEPT !.fill_set = @ \ {triple}]
    /\ UNCHANGED <<ret, metrics, pc, KG, calls, T, Q, val, heap_>>

\* return S
Return ==
    /\ pc = "fill_kg"
    /\ run.fill_set = {} \/ fill_stops(S, run.K)
    /\ pc' = "done"
    /\ UNCHANGED <<ret, metrics, KG, calls, T, Q, val, S, heap_, run>>

NextGlimpse ==
    \/ ModelUserPref \/ NewHeap \/ DirectTake \/ StartLoop \/ DivideByZero
    \/ Select \/ StartPadding \/ FillFromHeap \/ FillFromKG \/ Return

SpecGlimpse == InitGlimpse /\ [][NextGlimpse]_vars

(***************************************************************************)
(* GLIMPSE on the graphs whose triples are among the four of HTriples,     *)
(* with logs of up to MaxSamplingLog queries and a walk of DefaultPower or  *)
(* MaxPower steps: a log on A scores all four                              *)
(* above 0, so that the selection loop has rounds with three candidates    *)
(* left and a sample smaller than the candidate set.                       *)
(***************************************************************************)
HTriples ==
    <<  <<"A", "r", "B">>, <<"A", "r", "C">>, <<"C", "r", "A">>,
        <<"C", "r", "C">> >>

InitSampling ==
    /\ pc = "glimpse"
    /\ \E picked \in SUBSET DOMAIN HTriples :
          KG = Load(KnowledgeGraph, HTriples, picked)
    /\ calls = <<>>
    /\ T = <<>>
    /\ Q = NoQuery
    /\ val = NoValues
    /\ S = KnowledgeGraph
    /\ heap_ = <<>>
    /\ \E K \in 0 .. MaxK, epsilon \in Epsilons, power \in {DefaultPower, MaxPower},
          topics \in SeqsUpTo(KG.entities_, MaxSamplingLog) :
          run = [NoRun EXCEPT !.K = K, !.epsilon = epsilon, !.power = power,
                              !.query_log = [i \in DOMAIN topics |->
                                                LogQuery(topics[i])]]
    /\ ret = NoRet
    /\ metrics = NoMetrics

SpecSampling == InitSampling /\ [][NextGlimpse]_vars

(***************************************************************************)
(* The lookups and the value model on a loaded store: KG holds up to       *)
(* MaxTriples of the triples of GTriples; the log holds up to MaxLog       *)
(* queries on any topic entity, in KG or not.  A caller looks entities up  *)
(* (entity_id, id_entity, query_vector, entity_value) and scores the log,  *)
(* then a log one query longer.                                            *)
(***************************************************************************)
InitValues ==
    /\ pc = "values"
    /\ \E picked \in {P \in SUBSET DOMAIN GTriples : Cardinality(P) <= MaxTriples} :
          KG = Load(KnowledgeGraph, GTriples, picked)
    /\ calls = <<>>
    /\ T = <<>>
    /\ Q = NoQuery
    /\ val = NoValues
    /\ S = KnowledgeGraph
    /\ heap_ = <<>>
    /\ \E topics \in SeqsUpTo(Ent, MaxLog) :
          run = [NoRun EXCEPT !.query_log = [i \in DOMAIN topics |->
                                                LogQuery(topics[i])]]
    /\ ret = NoRet
    /\ metrics = NoMetrics

\* KG.entity_id(entity)
EntityId ==
    /\ pc \in {"values", "scored"}
    /\ \E entity \in Ent :
          ret' = IF raises_KeyError(KG.entity_id_, entity)
                 THEN [NoRet EXCEPT !.op = "entity_id", !.entity = entity,
                                    !.raised = TRUE]
                 ELSE [NoRet EXCEPT !.op = "entity_id", !.entity = entity,
                                    !.eid = entity_id(KG, entity)]
    /\ UNCHANGED <<metrics, pc, KG, calls, T, Q, glimpse_vars>>

\* KG.id_entity(eid)
IdEntity ==
    /\ pc \in {"values", "scored"}
    /\ \E eid \in 0 .. Cardinality(Ent) :
          ret' = IF raises_KeyError(KG.id_entity_, eid)
                 THEN [NoRet EXCEPT !.op = "id_entity", !.eid = eid,
                                    !.raised = TRUE]
                 ELSE [NoRet EXCEPT !.op = "id_entity", !.eid = eid,
                                    !.entity = id_entity(KG, eid)]
    /\ UNCHANGED <<metrics, pc, KG, calls, T, Q, glimpse_vars>>

\* query_vector(KG, query_log)
QueryVector ==
    /\ pc \in {"values", "scored"}
    /\ ret' = [NoRet EXCEPT !.op = "query_vector",
                            !.raised = query_vector_raises(KG, run.query_log)]
    /\ UNCHANGED <<metrics, pc, KG, calls, T, Q, glimpse_vars>>

\* KG.model_user_pref(query_log): reset(), then query_vector, which may
\* raise.
ScoreLog ==
    /\ pc = "values"
    /\ IF query_vector_raises(KG, run.query_log)
       THEN /\ pc' = "raised"
            /\ val' = NoValues
            /\ ret' = [NoRet EXCEPT !.op = "model_user_pref", !.raised = TRUE]
       ELSE /\ pc' = "scored"
            /\ val' = model_user_pref(KG, run.query_log, DefaultPower)
            /\ ret' = NoRet
    /\ UNCHANGED <<metrics, KG, calls, T, Q, S, heap_, run>>

\* KG.entity_value(entity), once the values exist.
EntityValue ==
    /\ pc = "scored"
    /\ \E entity \in Ent :
          /\ ret' = [NoRet EXCEPT !.op = "entity_value", !.entity = entity,
                                  !.value = entity_value(val, entity)]
          /\ val' = [val EXCEPT !.entity_value_ =
                                    defaultdict_getitem(@, entity)]
    /\ UNCHANGED <<metrics, pc, KG, calls, T, Q, S, heap_, run>>

\* KG.model_user_pref(query_log + [one more query on an entity of KG]).
ScoreLongerLog ==
    /\ pc = "scored"
    /\ Len(run.query_log) <= MaxLog
    /\ \E entity \in KG.entities_ :
          LET longer == Append(run.query_log, LogQuery(entity))
          IN  /\ run' = [run EXCEPT !.query_log = longer]
              /\ val' = model_user_pref(KG, longer, DefaultPower)
    /\ ret' = NoRet
    /\ UNCHANGED <<metrics, pc, KG, calls, T, Q, S, heap_>>

NextValues ==
    \/ EntityId \/ IdEntity \/ QueryVector \/ ScoreLog \/ EntityValue
    \/ ScoreLongerLog

SpecValues == InitValues /\ [][NextValues]_vars

(***************************************************************************)
(* Properties of GLIMPSE.                                                  *)
(***************************************************************************)
RECURSIVE SumEntityValues(_, _)
SumEntityValues(v, es) ==
    IF es = {} THEN 0
    ELSE LET e == CHOOSE y \in es : TRUE
         IN  FAdd(entity_value(v, e), SumEntityValues(v, es \ {e}))

RECURSIVE SumTripleValues(_, _)
SumTripleValues(v, ts) ==
    IF ts = {} THEN 0
    ELSE LET t == CHOOSE y \in ts : TRUE
         IN  FAdd(triple_value(v, t), SumTripleValues(v, ts \ {t}))

\* The objective: each entity touched by Sm counted once, plus the triples.
Objective(Sm, v) ==
    FAdd(SumEntityValues(v, Sm.entities_), SumTripleValues(v, triples(Sm)))

\* C1: a run with K >= 1 raises nothing, and the Summary it returns holds
\* exactly min(K, |KG.triples()|) triples: all of KG's when K is at least
\* their number.
C1_SummarySize ==
    run.K >= 1 =>
        /\ pc # "error"
        /\ pc = "done" =>
              /\ number_of_triples(S) = Min(run.K, Cardinality(triples(KG)))
              /\ Cardinality(triples(S)) = number_of_triples(S)
              /\ triples(S) \subseteq triples(KG)
              /\ run.K >= Cardinality(triples(KG)) => triples(S) = triples(KG)

\* A returned Summary that was padded past the positive scores to a budget
\* smaller than the graph.
C1_Witness ==
    /\ pc = "done"
    /\ run.K = 2
    /\ number_of_triples(KG) = 3
    /\ run.query_log # <<>>
    /\ number_of_triples(S) = 2
    /\ \E t \in triples(S) : initial_total(val, t) = 0

\* C2: at every point of a run the Summary holds at most K triples, all of
\* them triples of KG.
C2_SummaryBounded ==
    /\ number_of_triples(S) <= run.K
    /\ Cardinality(triples(S)) <= run.K
    /\ triples(S) \subseteq triples(KG)

\* The selection loop has filled the Summary to its budget by sampling.
C2_Witness ==
    /\ pc = "loop"
    /\ run.K = 2
    /\ number_of_triples(S) = 2
    /\ run.epsilon = "0.5"
    /\ Len(heap_) >= 1

\* The states in which KG is scored by a non-empty log and S exists.
ScoredSummary ==
    /\ pc \in {"branch", "loop", "fill_heap", "fill_kg", "done"}
    /\ run.query_log # <<>>

\* C3: for every triple t of KG that is not in S, marginal_value(t) is the
\* gain of the objective, f(S + t) - f(S).
C3_MarginalIsGain ==
    ScoredSummary =>
        \A t \in triples(KG) \ triples(S) :
            marginal_value(S, val, t) =
                Objective(add_triple(S, t), val) - Objective(S, val)

\* C10: a run with K = 0 raises nothing and returns an empty Summary.
C10_ZeroBudgetReturnsEmpty ==
    run.K = 0 =>
        /\ pc # "error"
        /\ pc = "done" => (number_of_triples(S) = 0 /\ triples(S) = {})

\* C11: a run with K <= 0 is rejected before selection starts: it never gets
\* past its entry (no candidate array is built, nothing is sampled or added)
\* and it returns no Summary.
C11_InvalidBudgetRejected ==
    run.K <= 0 =>
        /\ pc \notin {"branch", "loop", "fill_heap", "fill_kg", "done"}
        /\ heap_ = <<>>
        /\ number_of_triples(S) = 0

\* The objective of a set of triples: the Summary that holds exactly them.
ObjectiveOf(ts, v) ==
    FAdd(SumEntityValues(v, {t[1] : t \in ts} \cup {t[3] : t \in ts}),
         SumTripleValues(v, ts))

\* The sets of k triples of G (of all its triples when it has fewer).
Budgeted(G, k) ==
    {ts \in SUBSET triples(G) :
        Cardinality(ts) = Min(k, Cardinality(triples(G)))}

\* C15: with epsilon unset and a non-empty log, the objective of the returned
\* Summary is at least (1 - 1/e) = 0.6321 times the objective of every set
\* of K triples of KG.
C15_GreedyBound ==
    (pc = "done" /\ run.epsilon = "None" /\ run.K >= 1 /\ run.query_log # <<>>) =>
        \A ts \in Budgeted(KG, run.K) :
            FGeq(Objective(S, val) * Scale, 6321 * ObjectiveOf(ts, val))

(***************************************************************************)
(* Properties of the traversal.                                            *)
(***************************************************************************)
LiteralGraph ==
    {<<"A", "friend", "B">>, <<"B", "friend", "C">>, <<"B", "age", "30">>}

\* A finished answer_query of topic A, chain [friend, friend] on the literal
\* graph.
LiteralRun ==
    /\ pc = "answered"
    /\ triples(KG) = LiteralGraph
    /\ Q.query.TopicEntityMid = "A"
    /\ Q.query.InferentialChain = <<"friend", "friend">>

AgeConstraint(hop, value) ==
    <<[SourceNodeIndex |-> hop, NodePredicate |-> "age", Argument |-> value]>>

\* C4 as claimed: on the literal graph the answer is {C} without
\* constraints, {C} with the constraint (hop index 1, age, 30), and empty
\* with the constraint (hop index 1, age, 31).
C4_LiteralScenario ==
    LiteralRun =>
        /\ Q.query.Constraints = <<>> => Q.answer = {"C"}
        /\ Q.query.Constraints = AgeConstraint(1, "30") => Q.answer = {"C"}
        /\ Q.query.Constraints = AgeConstraint(1, "31") => Q.answer = {}

\* C4 as amended: hop indexes are 0-based, so the constraint on the
\* candidate B carries hop index 0: the answer is {C} without constraints,
\* {C} with (hop index 0, age, 30), empty with (hop index 0, age, 31); a
\* constraint with hop index 1 is evaluated on the candidate C, which has
\* no age, and the answer is empty for the value 30 as for 31.
C4_LiteralScenarioZeroBased ==
    LiteralRun =>
        /\ Q.query.Constraints = <<>> => Q.answer = {"C"}
        /\ Q.query.Constraints = AgeConstraint(0, "30") => Q.answer = {"C"}
        /\ Q.query.Constraints = AgeConstraint(0, "31") => Q.answer = {}
        /\ Q.query.Constraints = AgeConstraint(1, "30") => Q.answer = {}
        /\ Q.query.Constraints = AgeConstraint(1, "31") => Q.answer = {}

\* The literal query with the constraint on B answered: {C}.
C4_Witness ==
    /\ LiteralRun
    /\ Q.query.Constraints = AgeConstraint(0, "30")
    /\ Q.answer = {"C"}

\* C5: answering a generated query on the graph it was generated from
\* returns exactly the AnswerArgument values the generator recorded.
C5_GeneratedQueryReplays ==
    (pc = "answered" /\ Q.generated) =>
        Q.answer = {a.AnswerArgument : a \in Q.query.Answers}

\* A generated query whose constraint removed a candidate, answered.
C5_Witness ==
    /\ pc = "answered"
    /\ Q.generated
    /\ Len(Q.query.Constraints) = 1
    /\ Q.answer # {}
    /\ Q.answer # answer_query(KG, [Q.query EXCEPT !.Constraints = <<>>])

\* The entities at the end of a directed path of G that starts at topic and
\* whose relations are those of chain, in order.
PathEnds(G, topic, chain) ==
    LET nodes == G.entities_ \cup {topic}
        paths == {p \in [1 .. Len(chain) + 1 -> nodes] :
                     /\ p[1] = topic
                     /\ \A i \in 1 .. Len(chain) :
                            has_triple(G, <<p[i], chain[i], p[i + 1]>>)}
    IN  {p[Len(chain) + 1] : p \in paths}

Observed(G) ==
    [n |-> number_of_triples(G), flat |-> triples(G), ents |-> G.entities_,
     rels |-> G.relationships_, ids |-> G.entity_id_, labels |-> G.id_entity_]

\* The entities the calls mention, in order of first mention.
RECURSIVE Mentions(_)
Mentions(cs) ==
    IF cs = <<>> THEN <<>>
    ELSE <<cs[1][1], cs[1][3]>> \o Mentions(Tail(cs))

RECURSIVE FirstMentions(_, _)
FirstMentions(es, seen) ==
    IF es = <<>> THEN <<>>
    ELSE IF Head(es) \in seen THEN FirstMentions(Tail(es), seen)
    ELSE <<Head(es)>> \o FirstMentions(Tail(es), seen \cup {Head(es)})

\* C6: add_triple is idempotent: whenever add_triple is called with a triple
\* that an earlier call already passed, the call leaves the triple count,
\* the flat triple set, the entity set, the relation set and both ID
\* mappings as they were.
C6_AddTripleIdempotent ==
    [][(calls' # calls /\ calls'[Len(calls')] \in Range(calls))
          => Observed(KG') = Observed(KG)]_vars

\* A store that was handed the same triple twice in a row.
C6_Witness ==
    /\ Len(calls) >= 2
    /\ calls[Len(calls)] = calls[Len(calls) - 1]
    /\ number_of_triples(KG) < Len(calls)

\* C7: the assigned IDs are exactly 0..number_of_entities()-1, entity_id
\* and id_entity are inverse bijections between the entity set and that
\* range, and the entity with ID i is the (i+1)-th entity the calls
\* mentioned first (so an ID, once assigned, never changes).
C7_DenseStableIds ==
    LET n == number_of_entities(KG)
        order == FirstMentions(Mentions(calls), {})
    IN  /\ DOMAIN KG.id_entity_ = Ids(n)
        /\ DOMAIN KG.entity_id_ = KG.entities_
        /\ KG.eid_ = n
        /\ \A e \in KG.entities_ : id_entity(KG, entity_id(KG, e)) = e
        /\ \A i \in Ids(n) : entity_id(KG, id_entity(KG, i)) = i
        /\ Len(order) = n
        /\ \A i \in Ids(n) : id_entity(KG, i) = order[i + 1]

\* A store holding a triple whose subject is its object, and more entities.
C7_Witness ==
    /\ \E i \in 1 .. Len(calls) : calls[i][1] = calls[i][3]
    /\ number_of_entities(KG) = 3
    /\ Len(calls) = 3

\* C8: the indexes agree: the triple count is the size of the flat set, the
\* flat set is what the calls inserted, has_triple holds exactly of its
\* members, the entities are the subjects and objects (each with an ID)
\* and the relations are the relations of the stored triples.
C8_IndexesAgree ==
    LET flat == triples(KG)
    IN  /\ number_of_triples(KG) = Cardinality(flat)
        /\ flat = Range(calls)
        /\ \A t \in Universe : has_triple(KG, t) <=> t \in flat
        /\ KG.entities_ = {t[1] : t \in flat} \cup {t[3] : t \in flat}
        /\ KG.entities_ = DOMAIN KG.entity_id_
        /\ KG.relationships_ = {t[2] : t \in flat}

\* A store with two relations, after a duplicate insertion.
C8_Witness ==
    /\ Len(calls) = 3
    /\ number_of_triples(KG) = 2
    /\ Cardinality(KG.relationships_) = 2

\* Out-neighbours of the entity with ID i under the boolean adjacency.
OutNeighbours(G, i) ==
    {entity_id(G, t[3]) : t \in {u \in triples(G) : entity_id(G, u[1]) = i}}

RECURSIVE ColumnSum(_, _, _)
ColumnSum(M, i, j) ==
    IF j < 0 THEN 0 ELSE M[<<j, i>>] + ColumnSum(M, i, j - 1)

\* C9: transition_matrix() is A^T D^-1: a column of an entity with outgoing
\* triples sums to 1 and holds 1/outdeg at each out-neighbour (stated as
\* T[j][i] * outdeg(i) = 1), and the column of an entity without outgoing
\* triples is zero.
C9_ColumnStochastic ==
    pc = "matrix" =>
        \A i \in Ids(number_of_entities(KG)) :
            LET out == OutNeighbours(KG, i)
            IN  IF out = {}
                THEN \A j \in Ids(number_of_entities(KG)) : T[<<j, i>>] = 0
                ELSE /\ ColumnSum(T, i, number_of_entities(KG) - 1) = 1
                     /\ \A j \in out : T[<<j, i>>] * Cardinality(out) = 1

(***************************************************************************)
(* Properties of the lookups and of the value model.                       *)
(***************************************************************************)
\* Whether the lookup whose outcome is r was keyed by an entity (a label, an
\* ID or a topic entity of the log) that was never inserted into G.
NeverInserted(G, log, r) ==
    CASE r.op \in {"entity_id", "entity_value"} -> r.entity \notin G.entities_
      [] r.op = "id_entity" ->
            r.eid \notin {G.entity_id_[e] : e \in G.entities_}
      [] r.op = "query_vector" ->
            \E i \in DOMAIN log : log[i].Parse.TopicEntityMid \notin G.entities_
      [] OTHER -> FALSE

\* C12: a lookup keyed by an entity that was never inserted raises, and leaves
\* the store and its value annotation as they were.
C12_UnknownEntityLookupsFail ==
    [][NeverInserted(KG, run.query_log, ret') =>
          (ret'.raised /\ KG' = KG /\ val' = val)]_vars

\* C16: when a scored, non-empty log gets one more query on the entity e and
\* is scored again, the value of e does not decrease (beyond a thousandth, the
\* rounding of the fixed-point floats), and every value is a number >= 0.
C16_ScoresMonotoneInWeight ==
    [][(/\ pc = "scored" /\ pc' = "scored"
        /\ run.query_log # <<>>
        /\ Len(run'.query_log) = Len(run.query_log) + 1) =>
          LET e == run'.query_log[Len(run'.query_log)].Parse.TopicEntityMid
          IN  /\ FGeq(entity_value(val', e) + 10, entity_value(val, e))
              /\ \A x \in DOMAIN val'.entity_value_ :
                     FGeq(val'.entity_value_[x], 0)
              /\ \A t \in DOMAIN val'.triple_value_ :
                     FGeq(val'.triple_value_[t], 0)]_vars

\* C13: scoring an empty log on a non-empty graph raises nothing and gives
\* every entity and every triple the value 0.
C13_ZeroSumScoresZero ==
    (/\ pc \in {"scored", "raised"}
     /\ run.query_log = <<>>
     /\ number_of_triples(KG) > 0) =>
        /\ pc = "scored"
        /\ \A e \in KG.entities_ : entity_value(val, e) = 0
        /\ \A t \in triples(KG) : triple_value(val, t) = 0

(***************************************************************************)
(* Properties of Heap.update in the selection loop.                        *)
(***************************************************************************)
\* A round of the selection loop has just ended: a triple was popped and
\* added, and heap.update(S, sample_size) has returned.
RoundDone == pc = "loop" /\ number_of_triples(S) >= 1

\* The candidate the next pop removes.
Promoted == heap_[Len(heap_)].triple

\* C17: after a round in which Heap.update fell back, the promoted candidate
\* is one of the sampled candidates and its marginal value against S is >=
\* that of every sampled candidate.
C17_FallbackPromotesSampleMax ==
    (RoundDone /\ run.sample.lazy = "fallback") =>
        /\ Promoted \in Range(run.sample.triples)
        /\ \A t \in Range(run.sample.triples) :
               FGeq(marginal_value(S, val, Promoted), marginal_value(S, val, t))

C19_SampleWithoutReplacement ==
    RoundDone =>
        \A j, k \in DOMAIN run.sample.indices :
            j # k => run.sample.indices[j] # run.sample.indices[k]

\* The ceiling of a / b for a >= 0 and b > 0.
CeilDiv(a, b) == (a + b - 1) \div b

\* C20: in a round that leaves n >= 2 candidates, the number of sampled
\* indices is min(n, ceil(n / K * ln(1 / epsilon))) when epsilon is set, and
\* the sample is the whole candidate set when it is not.
C20_SampleSizeFromCurrentCount ==
    (RoundDone /\ run.sample.n >= 2) =>
        IF run.epsilon = "None"
        THEN Range(run.sample.indices) = Ids(run.sample.n)
        ELSE Len(run.sample.indices) =
                Min(run.sample.n,
                    CeilDiv(run.sample.n * log_inv(run.epsilon), run.K * Scale))

(***************************************************************************)
(* The reach of the value model.                                           *)
(***************************************************************************)
\* The topic entities of the log of the run.
Topics ==
    {run.query_log[i].Parse.TopicEntityMid : i \in DOMAIN run.query_log}

\* The entities of from and those a directed path of at most p triples of G
\* leads to from one of them.
RECURSIVE ReachedWithin(_, _, _)
ReachedWithin(G, from, p) ==
    IF p = 0 THEN from
    ELSE ReachedWithin(G, from \cup {t[3] : t \in {u \in triples(G) : u[1] \in from}},
                       p - 1)

\* C21: once a non-empty log was scored with power = p, every entity that is
\* neither a topic entity nor within p triples of one has entity value 0,
\* every triple with such an endpoint has triple value 0, and every
\* candidate of the heap has an endpoint with a value above 0.
C21_UnreachedScoreZero ==
    (pc # "glimpse" /\ run.query_log # <<>>) =>
        LET near == ReachedWithin(KG, Topics, run.power)
        IN  /\ \A entity \in KG.entities_ \ near : entity_value(val, entity) = 0
            /\ \A triple \in triples(KG) :
                   (triple[1] \notin near \/ triple[3] \notin near) =>
                       triple_value(val, triple) = 0
            /\ \A i \in DOMAIN heap_ :
                   \/ FLess(0, entity_value(val, heap_[i].triple[1]))
                   \/ FLess(0, entity_value(val, heap_[i].triple[3]))

\* A log was scored and the heap built while an entity lay just out of
\* reach: one triple further than the walk went.
C21_Witness ==
    /\ pc = "branch"
    /\ run.query_log # <<>>
    /\ Len(heap_) >= 1
    /\ \E entity \in ReachedWithin(KG, Topics, run.power + 1) :
          /\ entity \notin ReachedWithin(KG, Topics, run.power)
          /\ entity_value(val, entity) = 0
          /\ \E triple \in triples(KG) :
                 triple[3] = entity /\ triple_value(val, triple) = 0

(***************************************************************************)
(* The candidates of the selection loop.                                   *)
(***************************************************************************)
\* C22: throughout the selection loop, the stored score of every candidate
\* of the heap is at least its marginal value against the current S, and
\* no candidate of the heap is a triple of S.
C22_StoredScoresBoundMarginal ==
    pc = "loop" =>
        \A i \in DOMAIN heap_ :
            /\ FGeq(heap_[i].value_, marginal_value(S, val, heap_[i].triple))
            /\ ~has_triple(S, heap_[i].triple)

\* After a round, one candidate holds a stale score above its marginal value
\* and another a score that was recomputed against the current S.
C22_Witness ==
    /\ RoundDone
    /\ \E i, j \in DOMAIN heap_ :
          /\ heap_[i].value_ > marginal_value(S, val, heap_[i].triple)
          /\ heap_[j].value_ = marginal_value(S, val, heap_[j].triple)
          /\ heap_[j].value_ < initial_total(val, heap_[j].triple)

(***************************************************************************)
(* Answers of a summary against those of its parent.                       *)
(***************************************************************************)
\* C23: for a Summary S whose triples are triples of its parent KG, the
\* answers of S to a query are answers of KG to it, and the false-positive
\* count total_query_log_metrics accumulates is 0.
C23_SummaryAnswersWithinParent ==
    pc = "measured" =>
        /\ triples(S) \subseteq triples(KG)
        /\ answer_query(S, Q.query) \subseteq Q.answer
        /\ metrics.fp = 0

\* A query whose constraint removes a candidate of KG was measured on a
\* summary that lacks a triple of KG: the summary finds an answer and misses
\* another.
C23_Witness ==
    /\ pc = "measured"
    /\ Q.answer # answer_query(KG, [Q.query EXCEPT !.Constraints = <<>>])
    /\ number_of_triples(S) < number_of_triples(KG)
    /\ answer_query(S, Q.query) # {}
    /\ metrics.tp >= 1
    /\ metrics.fn >= 1

(***************************************************************************)
(* Progress of the selection loop.                                         *)
(***************************************************************************)
\* The step enters the loop: the update before it.
EntersLoop == pc = "branch" /\ pc' = "loop"

\* The step is one iteration of the loop.
Iterates == pc = "loop" /\ pc' = "loop"

\* The iteration the loop condition admits can be made: the heap is not
\* empty for pop, and update returns.
IterationReturns ==
    (pc = "loop" /\ loop_continues(heap_, S, run.K)) =>
        /\ Len(heap_) >= 1
        /\ update(SubSeq(heap_, 1, Len(heap_) - 1),
                  add_triple(S, heap_[Len(heap_)].triple), val,
                  run.sample_size) # {}

\* C24: with K >= 1 the selection loop terminates.  It starts with an empty
\* S and all the candidates of the heap; each iteration pops from a
\* non-empty heap and returns, leaves exactly one candidate fewer and S
\* exactly one new triple larger, and the iterations made never exceed
\* min(K, initial candidate count).
C24_EachIterationTakesOne ==
    /\ [](run.K >= 1 => IterationReturns)
    /\ [][run.K >= 1 =>
          /\ EntersLoop =>
                 /\ number_of_triples(S') = 0
                 /\ Len(heap_') = Len(heap_)
          /\ Iterates =>
                 /\ Len(heap_) >= 1
                 /\ Len(heap_') = Len(heap_) - 1
                 /\ ~has_triple(S, heap_[Len(heap_)].triple)
                 /\ has_triple(S', heap_[Len(heap_)].triple)
                 /\ number_of_triples(S') = number_of_triples(S) + 1
                 /\ number_of_triples(S') <=
                        Min(run.K, Len(heap_) + number_of_triples(S))]_vars

\* The loop made its last iteration with candidates left over: S holds K
\* triples, fewer than the initial candidate count.
C24_Witness ==
    /\ pc = "loop"
    /\ run.K >= 2
    /\ number_of_triples(S) = run.K
    /\ Len(heap_) >= 1
    /\ ~loop_continues(heap_, S, run.K)

====
